---- MODULE Spec2Model ----
(***************************************************************************)
(* A model of src/candle.rs: the columnar candle store `Candles`, the row  *)
(* view `Candle`, and the snapshot iterator `CandlesIterator`.             *)
(*                                                                         *)
(* Option<T> is modelled as a sequence of length 0 (None) or 1 (Some).     *)
(* A call that may panic returns [panic, val]; a panic ends the run.       *)
(* Rust indices are 0-based, TLA+ sequences 1-based: v[i] is v[i + 1].     *)
(***************************************************************************)
EXTENDS Integers, Sequences, FiniteSets, TLC

\* Bounds of the model.
MaxLen == 2        \* push is explored while the time column is shorter than this
UsizeMax == 3      \* largest value of the iterator's cursor (usize::MAX, scaled down)

MaxCalls == UsizeMax + 2   \* next() calls explored on one iterator (past one wrap)

VARIABLES
    candles,    \* the store the caller owns (a Candles value)
    iterator,   \* Option<CandlesIterator>: the iterator the caller holds
    ret,        \* the last call: [op, arg, res], res = [panic, val]
    panicked,   \* TRUE once a call has panicked
    snap,       \* history: the store as it was when iter() was last called
    yielded     \* history: the results of the next() calls on the iterator

vars == <<candles, iterator, ret, panicked, snap, yielded>>

----------------------------------------------------------------------------
\* Option and call results

None == <<>>
Some(x) == <<x>>
IsSome(o) == o # <<>>
IsNone(o) == o = <<>>
Unwrap(o) == o[1]

Ok(v) == [panic |-> FALSE, val |-> v]
Panic == [panic |-> TRUE, val |-> None]

----------------------------------------------------------------------------
\* Values

\* The identifier of the series.
Ids == {"ES"}

\* The arguments fed to push: two bars, each with and without a volume.
\* Every field of every bar has a value of its own, so a row that mixes up
\* columns or indices is seen.
PushArgs ==
    { [open |-> 10, high |-> 14, low |-> 8, close |-> 12, volume |-> v, time |-> 100]
        : v \in {None, Some(7)} }
    \cup
    { [open |-> 20, high |-> 24, low |-> 18, close |-> 22, volume |-> v, time |-> 200]
        : v \in {None, Some(9)} }

----------------------------------------------------------------------------
\* Candles, Candle

\* An empty store; volume is Some(vec![]) when tracking, None otherwise.
EmptyCandles(id, tracking) ==
    [ id |-> id, open |-> <<>>, high |-> <<>>, low |-> <<>>, close |-> <<>>,
      volume |-> IF tracking THEN Some(<<>>) ELSE None, time |-> <<>> ]

Candle(id, open, high, low, close, volume, time) ==
    [ id |-> id, open |-> open, high |-> high, low |-> low, close |-> close,
      volume |-> volume, time |-> time ]

\* v[index]: in bounds or a panic.
InBounds(v, index) == index < Len(v)

\* v[from..]: panics when from > v.len().
SliceFrom(v, from) == SubSeq(v, from + 1, Len(v))

is_empty(c) == c.time = <<>>

\* CandlesExt::get
get(c, index) ==
    IF index < Len(c.time)
    THEN IF /\ InBounds(c.open, index)
            /\ InBounds(c.high, index)
            /\ InBounds(c.low, index)
            /\ InBounds(c.close, index)
            /\ (IsSome(c.volume) => InBounds(Unwrap(c.volume), index))
         THEN Ok(Some(Candle(c.id,
                             c.open[index + 1],
                             c.high[index + 1],
                             c.low[index + 1],
                             c.close[index + 1],
                             IF IsSome(c.volume)
                             THEN Some(Unwrap(c.volume)[index + 1])
                             ELSE None,
                             c.time[index + 1])))
         ELSE Panic
    ELSE Ok(None)

\* CandlesExt::last
last(c) ==
    IF c.time = <<>>
    THEN Ok(None)
    ELSE IF /\ c.open # <<>>
            /\ c.high # <<>>
            /\ c.low # <<>>
            /\ c.close # <<>>
            /\ (IsSome(c.volume) => Unwrap(c.volume) # <<>>)
         THEN Ok(Some(Candle(c.id,
                             c.open[Len(c.open)],
                             c.high[Len(c.high)],
                             c.low[Len(c.low)],
                             c.close[Len(c.close)],
                             IF IsSome(c.volume)
                             THEN Some(Unwrap(c.volume)[Len(Unwrap(c.volume))])
                             ELSE None,
                             c.time[Len(c.time)])))
         ELSE Panic

\* take_last as it would be if the time column were cloned whole instead of
\* sliced by the range of the other columns.
take_last_time_unsliced(c, n) ==
    LET len == Len(c.time) IN
    IF len < n
    THEN Ok(None)
    ELSE IF /\ len - n <= Len(c.open)
            /\ len - n <= Len(c.high)
            /\ len - n <= Len(c.low)
            /\ len - n <= Len(c.close)
            /\ (IsSome(c.volume) => len - n <= Len(Unwrap(c.volume)))
         THEN Ok(Some([ id |-> c.id,
                        open |-> SliceFrom(c.open, len - n),
                        high |-> SliceFrom(c.high, len - n),
                        low |-> SliceFrom(c.low, len - n),
                        close |-> SliceFrom(c.close, len - n),
                        volume |-> IF IsSome(c.volume)
                                   THEN Some(SliceFrom(Unwrap(c.volume), len - n))
                                   ELSE None,
                        time |-> c.time ]))
         ELSE Panic

\* CandlesExt::take_last
take_last(c, n) ==
    LET len == Len(c.time) IN
    IF len < n
    THEN Ok(None)
    ELSE IF /\ len - n <= Len(c.open)
            /\ len - n <= Len(c.high)
            /\ len - n <= Len(c.low)
            /\ len - n <= Len(c.close)
            /\ (IsSome(c.volume) => len - n <= Len(Unwrap(c.volume)))
         THEN Ok(Some([ id |-> c.id,
                        open |-> SliceFrom(c.open, len - n),
                        high |-> SliceFrom(c.high, len - n),
                        low |-> SliceFrom(c.low, len - n),
                        close |-> SliceFrom(c.close, len - n),
                        volume |-> IF IsSome(c.volume)
                                   THEN Some(SliceFrom(Unwrap(c.volume), len - n))
                                   ELSE None,
                        time |-> SliceFrom(c.time, len - n) ]))
         ELSE Panic

\* push as it would be if it created the volume column on a store that
\* has none when a volume is supplied.
push_autotrack(c, open, high, low, close, volume, time) ==
    LET c1 == [c EXCEPT !.open = Append(@, open),
                        !.high = Append(@, high),
                        !.low = Append(@, low),
                        !.close = Append(@, close),
                        !.time = Append(@, time)]
    IN  IF IsSome(volume)
        THEN [ panic |-> FALSE,
               store |-> [c1 EXCEPT
                            !.volume = IF IsSome(c.volume)
                                       THEN Some(Append(Unwrap(@), Unwrap(volume)))
                                       ELSE Some(<<Unwrap(volume)>>)] ]
        ELSE [ panic |-> FALSE, store |-> c1 ]

\* Candles::push: the store it leaves behind and whether it panicked.
\* open, high, low and close are pushed first; a supplied volume is pushed
\* into self.volume.as_mut().unwrap(), which panics on a store without a
\* volume column, before time is pushed.
push(c, open, high, low, close, volume, time) ==
    LET c1 == [c EXCEPT !.open = Append(@, open),
                        !.high = Append(@, high),
                        !.low = Append(@, low),
                        !.close = Append(@, close)]
    IN  IF IsSome(volume)
        THEN IF IsSome(c.volume)
             THEN [ panic |-> FALSE,
                    store |-> [c1 EXCEPT
                                 !.volume = Some(Append(Unwrap(@), Unwrap(volume))),
                                 !.time = Append(@, time)] ]
             ELSE [ panic |-> TRUE, store |-> c1 ]
        ELSE [ panic |-> FALSE, store |-> [c1 EXCEPT !.time = Append(@, time)] ]

\* #[derive(Clone)] for Candles: every field is cloned.
clone(c) ==
    [ id |-> c.id, open |-> c.open, high |-> c.high, low |-> c.low,
      close |-> c.close, volume |-> c.volume, time |-> c.time ]

\* Candles::iter: the iterator owns a clone of the store.
iter(c) == [candles |-> clone(c), idx |-> 0]

\* next as it would be if the iterator were a live view of the caller's
\* store instead of the owner of a snapshot.
next_live(it) ==
    LET candle == get(candles, it.idx) IN
    IF candle.panic
    THEN { [it |-> it, res |-> Panic] }
    ELSE IF it.idx < UsizeMax
         THEN { [it |-> [it EXCEPT !.idx = it.idx + 1], res |-> candle] }
         ELSE { [it |-> it, res |-> Panic],
                [it |-> [it EXCEPT !.idx = 0], res |-> candle] }

\* next as it would be if the iterator consumed its snapshot: the row it
\* yields is dropped from the front and the cursor stays at 0.
next_draining(it) ==
    LET candle == get(it.candles, 0) IN
    IF candle.panic
    THEN { [it |-> it, res |-> Panic] }
    ELSE IF IsNone(candle.val)
         THEN { [it |-> it, res |-> candle] }
         ELSE { [it |-> [it EXCEPT !.candles =
                            Unwrap(take_last(it.candles, Len(it.candles.time) - 1).val)],
                 res |-> candle] }

\* CandlesIterator::next: the set of outcomes [it, res]. `self.idx += 1`
\* at usize::MAX panics with overflow checks (debug builds) and wraps to 0
\* without them (release builds).
next(it) ==
    LET candle == get(it.candles, it.idx) IN
    IF candle.panic
    THEN { [it |-> it, res |-> Panic] }
    ELSE IF it.idx < UsizeMax
         THEN { [it |-> [it EXCEPT !.idx = it.idx + 1], res |-> candle] }
         ELSE { [it |-> it, res |-> Panic],
                [it |-> [it EXCEPT !.idx = 0], res |-> candle] }

\* into_iter as it would be if the cursor started past the first bar.
into_iter_skipping(c) == [candles |-> c, idx |-> 1]

\* Candles::into_iter: the iterator takes the store itself.
into_iter(c) == [candles |-> c, idx |-> 0]

\* The field accessors open, high, low, close, volume, time of
\* `impl CandlesExt for Candles`: a reference to the column.
Fields == {"open", "high", "low", "close", "volume", "time"}

accessor(c, f) ==
    CASE f = "open" -> c.open
      [] f = "high" -> c.high
      [] f = "low" -> c.low
      [] f = "close" -> c.close
      [] f = "volume" -> c.volume
      [] f = "time" -> c.time

\* `impl CandlesExt for &Candles`. A reference is modelled by the store it
\* points to. self is a &&Candles there, so self.to_owned() copies the
\* reference (a &Candles), and get / last on it are those of Candles.
to_owned(r) == r

ref_get(r, index) == get(to_owned(r), index)

ref_last(r) == last(to_owned(r))

ref_accessor(r, f) ==
    CASE f = "open" -> r.open
      [] f = "high" -> r.high
      [] f = "low" -> r.low
      [] f = "close" -> r.close
      [] f = "volume" -> r.volume
      [] f = "time" -> r.time

\* ref_take_last as it would be if the second copy of take_last had drifted
\* from the first: absence already when the store has exactly n bars.
ref_take_last_drifted(r, n) ==
    LET len == Len(r.time) IN
    IF len <= n THEN Ok(None) ELSE take_last(r, n)

\* take_last is written out a second time for &Candles.
ref_take_last(r, n) ==
    LET len == Len(r.time) IN
    IF len < n
    THEN Ok(None)
    ELSE IF /\ len - n <= Len(r.open)
            /\ len - n <= Len(r.high)
            /\ len - n <= Len(r.low)
            /\ len - n <= Len(r.close)
            /\ (IsSome(r.volume) => len - n <= Len(Unwrap(r.volume)))
         THEN Ok(Some([ id |-> r.id,
                        open |-> SliceFrom(r.open, len - n),
                        high |-> SliceFrom(r.high, len - n),
                        low |-> SliceFrom(r.low, len - n),
                        close |-> SliceFrom(r.close, len - n),
                        volume |-> IF IsSome(r.volume)
                                   THEN Some(SliceFrom(Unwrap(r.volume), len - n))
                                   ELSE None,
                        time |-> SliceFrom(r.time, len - n) ]))
         ELSE Panic

----------------------------------------------------------------------------
\* The state machine: a caller that owns one store and at most one iterator.

Init ==
    /\ \E id \in Ids, tracking \in BOOLEAN : candles = EmptyCandles(id, tracking)
    /\ iterator = None
    /\ ret = [op |-> "new", arg |-> None, res |-> Ok(None)]
    /\ panicked = FALSE
    /\ snap = None
    /\ yielded = <<>>

Push(a) ==
    /\ ~panicked
    /\ Len(candles.time) < MaxLen
    /\ LET r == push(candles, a.open, a.high, a.low, a.close, a.volume, a.time) IN
        /\ candles' = r.store
        /\ panicked' = r.panic
        /\ ret' = [op |-> "push", arg |-> Some(a),
                   res |-> IF r.panic THEN Panic ELSE Ok(None)]
    /\ UNCHANGED <<iterator, snap, yielded>>

Get(index) ==
    /\ ~panicked
    /\ LET r == get(candles, index) IN
        /\ ret' = [op |-> "get", arg |-> Some(index), res |-> r]
        /\ panicked' = r.panic
    /\ UNCHANGED <<candles, iterator, snap, yielded>>

Last ==
    /\ ~panicked
    /\ LET r == last(candles) IN
        /\ ret' = [op |-> "last", arg |-> None, res |-> r]
        /\ panicked' = r.panic
    /\ UNCHANGED <<candles, iterator, snap, yielded>>

TakeLast(n) ==
    /\ ~panicked
    /\ LET r == take_last(candles, n) IN
        /\ ret' = [op |-> "take_last", arg |-> Some(n), res |-> r]
        /\ panicked' = r.panic
    /\ UNCHANGED <<candles, iterator, snap, yielded>>

\* The caller goes on with the store take_last returned.
Rebind ==
    /\ ~panicked
    /\ ret.op = "take_last"
    /\ IsSome(ret.res.val)
    /\ candles' = Unwrap(ret.res.val)
    /\ ret' = [op |-> "rebind", arg |-> None, res |-> Ok(None)]
    /\ UNCHANGED <<iterator, panicked, snap, yielded>>

Iter ==
    /\ ~panicked
    /\ iterator' = Some(iter(candles))
    /\ ret' = [op |-> "iter", arg |-> None, res |-> Ok(None)]
    /\ snap' = Some(candles)
    /\ yielded' = <<>>
    /\ UNCHANGED <<candles, panicked>>

IterNext ==
    /\ ~panicked
    /\ IsSome(iterator)
    /\ Len(yielded) < MaxCalls
    /\ \E o \in next(Unwrap(iterator)) :
        /\ iterator' = Some(o.it)
        /\ ret' = [op |-> "next", arg |-> None, res |-> o.res]
        /\ panicked' = o.res.panic
        /\ yielded' = Append(yielded, o.res)
    /\ UNCHANGED <<candles, snap>>

IsEmpty ==
    /\ ~panicked
    /\ ret' = [op |-> "is_empty", arg |-> None, res |-> Ok(Some(is_empty(candles)))]
    /\ UNCHANGED <<candles, iterator, panicked, snap, yielded>>

Accessor(f) ==
    /\ ~panicked
    /\ ret' = [op |-> "accessor", arg |-> Some(f), res |-> Ok(Some(accessor(candles, f)))]
    /\ UNCHANGED <<candles, iterator, panicked, snap, yielded>>

\* The same calls through a &Candles borrowed from the caller's store.
RefGet(index) ==
    /\ ~panicked
    /\ LET r == ref_get(candles, index) IN
        /\ ret' = [op |-> "ref_get", arg |-> Some(index), res |-> r]
        /\ panicked' = r.panic
    /\ UNCHANGED <<candles, iterator, snap, yielded>>

RefLast ==
    /\ ~panicked
    /\ LET r == ref_last(candles) IN
        /\ ret' = [op |-> "ref_last", arg |-> None, res |-> r]
        /\ panicked' = r.panic
    /\ UNCHANGED <<candles, iterator, snap, yielded>>

RefTakeLast(n) ==
    /\ ~panicked
    /\ LET r == ref_take_last(candles, n) IN
        /\ ret' = [op |-> "ref_take_last", arg |-> Some(n), res |-> r]
        /\ panicked' = r.panic
    /\ UNCHANGED <<candles, iterator, snap, yielded>>

RefAccessor(f) ==
    /\ ~panicked
    /\ ret' = [op |-> "ref_accessor", arg |-> Some(f),
               res |-> Ok(Some(ref_accessor(candles, f)))]
    /\ UNCHANGED <<candles, iterator, panicked, snap, yielded>>

\* into_iter takes the store by value: the caller hands it a clone and
\* keeps its own store.
IntoIter ==
    /\ ~panicked
    /\ iterator' = Some(into_iter(candles))
    /\ ret' = [op |-> "into_iter", arg |-> None, res |-> Ok(None)]
    /\ snap' = Some(candles)
    /\ yielded' = <<>>
    /\ UNCHANGED <<candles, panicked>>

\* The calls on the owned store.
StoreOps ==
    \/ \E a \in PushArgs : Push(a)
    \/ \E index \in 0..MaxLen : Get(index)
    \/ Last
    \/ \E n \in 0..(MaxLen + 1) : TakeLast(n)
    \/ Rebind
    \/ IsEmpty
    \/ \E f \in Fields : Accessor(f)

Next ==
    \/ StoreOps
    \/ Iter
    \/ IterNext
    \/ IntoIter

Spec == Init /\ [][Next]_vars

\* The owned store and the calls through a reference to it, no iterator.
NextRef ==
    \/ StoreOps
    \/ \E index \in 0..MaxLen : RefGet(index)
    \/ RefLast
    \/ \E n \in 0..(MaxLen + 1) : RefTakeLast(n)
    \/ \E f \in Fields : RefAccessor(f)

SpecRef == Init /\ [][NextRef]_vars

----------------------------------------------------------------------------
\* Vocabulary of the properties

\* The equal-length rule of the store: open, high, low, close and time have
\* one length, and so has the volume column when there is one.
LengthInvariant(c) ==
    /\ Len(c.open) = Len(c.time)
    /\ Len(c.high) = Len(c.time)
    /\ Len(c.low) = Len(c.time)
    /\ Len(c.close) = Len(c.time)
    /\ (IsSome(c.volume) => Len(Unwrap(c.volume)) = Len(c.time))

\* The final n elements of s, in order.
LastN(s, n) == SubSeq(s, Len(s) - n + 1, Len(s))

\* A step that is a call of push (every action sets ret, so a step that
\* changes the state and leaves ret.op = "push" is a Push step).
PushStep == ret'.op = "push"
Pushed == Unwrap(ret'.arg)

ReadOps == {"get", "last", "take_last", "next"}

----------------------------------------------------------------------------
\* C1: in every store reachable from an empty store (volume tracked or not)
\* by push, take_last and iter calls, open, high, low, close and time have
\* the same length, and the volume column, when present, has that length
\* too. The stores are the caller's store, the store take_last returned and
\* the iterator's snapshot, after calls that returned.
C1_LengthInvariant ==
    ~panicked =>
        /\ LengthInvariant(candles)
        /\ (ret.op = "take_last" /\ IsSome(ret.res.val)
                => LengthInvariant(Unwrap(ret.res.val)))
        /\ (IsSome(iterator) => LengthInvariant(Unwrap(iterator).candles))

\* C2: push with a supplied volume on a store without a volume column
\* completes normally, appends the pushed open, high, low, close and time,
\* and leaves the volume column absent.
C2_PushIgnoresVolume ==
    [][ (PushStep /\ IsNone(candles.volume) /\ IsSome(Pushed.volume))
          => /\ ~panicked'
             /\ candles'.open = Append(candles.open, Pushed.open)
             /\ candles'.high = Append(candles.high, Pushed.high)
             /\ candles'.low = Append(candles.low, Pushed.low)
             /\ candles'.close = Append(candles.close, Pushed.close)
             /\ candles'.time = Append(candles.time, Pushed.time)
             /\ IsNone(candles'.volume) ]_vars

\* C3: after any push that returns, whatever its arguments, every tracked
\* column (open, high, low, close, time, and volume when the store has one)
\* is exactly one longer than before, and an absent volume column stays
\* absent.
C3_PushGrowsByOne ==
    [][ (PushStep /\ ~panicked')
          => /\ Len(candles'.open) = Len(candles.open) + 1
             /\ Len(candles'.high) = Len(candles.high) + 1
             /\ Len(candles'.low) = Len(candles.low) + 1
             /\ Len(candles'.close) = Len(candles.close) + 1
             /\ Len(candles'.time) = Len(candles.time) + 1
             /\ IsSome(candles.volume) = IsSome(candles'.volume)
             /\ (IsSome(candles.volume) =>
                    Len(Unwrap(candles'.volume)) = Len(Unwrap(candles.volume)) + 1)
      ]_vars

\* C4: on every store reachable by push, take_last and iter calls, get,
\* last, take_last and next return a value or absence and never panic.
C4_NoReadFaults ==
    ret.op \in ReadOps => ~ret.res.panic

\* C5: on every reachable non-empty store last() and get(length - 1) return
\* the same Row, in every field; on an empty store last() returns absence.
C5_GetLastAgree ==
    ~panicked =>
        IF is_empty(candles)
        THEN last(candles) = Ok(None)
        ELSE /\ ~last(candles).panic
             /\ IsSome(last(candles).val)
             /\ last(candles) = get(candles, Len(candles.time) - 1)

\* C6: get(index) returns absence exactly when index >= length of the time
\* column; for index < length it returns the Row of the index-th open,
\* high, low, close and time, the store's identifier, and as volume the
\* index-th volume when the store has a volume column, absent otherwise.
C6_GetReadsRow ==
    ~panicked =>
        \A index \in 0..(MaxLen + 1) :
            LET r == get(candles, index) IN
            IF index >= Len(candles.time)
            THEN r = Ok(None)
            ELSE /\ ~r.panic
                 /\ IsSome(r.val)
                 /\ Unwrap(r.val).id = candles.id
                 /\ Unwrap(r.val).open = candles.open[index + 1]
                 /\ Unwrap(r.val).high = candles.high[index + 1]
                 /\ Unwrap(r.val).low = candles.low[index + 1]
                 /\ Unwrap(r.val).close = candles.close[index + 1]
                 /\ Unwrap(r.val).time = candles.time[index + 1]
                 /\ IF IsSome(candles.volume)
                    THEN /\ index < Len(Unwrap(candles.volume))
                         /\ Unwrap(r.val).volume
                                = Some(Unwrap(candles.volume)[index + 1])
                    ELSE Unwrap(r.val).volume = None

\* C7: take_last(n) on a store of k bars returns absence exactly when
\* n > k; for n <= k, n = 0 included, it returns a store with the same
\* identifier whose open, high, low, close, time (and volume, when there is
\* a volume column) are the final n elements of the original columns.
C7_TakeLastSuffix ==
    ~panicked =>
        \A n \in 0..(MaxLen + 1) :
            LET r == take_last(candles, n)
                k == Len(candles.time)
            IN  IF n > k
                THEN r = Ok(None)
                ELSE /\ ~r.panic
                     /\ IsSome(r.val)
                     /\ Unwrap(r.val).id = candles.id
                     /\ n <= Len(candles.open)
                     /\ n <= Len(candles.high)
                     /\ n <= Len(candles.low)
                     /\ n <= Len(candles.close)
                     /\ Unwrap(r.val).open = LastN(candles.open, n)
                     /\ Unwrap(r.val).high = LastN(candles.high, n)
                     /\ Unwrap(r.val).low = LastN(candles.low, n)
                     /\ Unwrap(r.val).close = LastN(candles.close, n)
                     /\ Unwrap(r.val).time = LastN(candles.time, n)
                     /\ Len(Unwrap(r.val).time) = n
                     /\ IF IsSome(candles.volume)
                        THEN /\ n <= Len(Unwrap(candles.volume))
                             /\ Unwrap(r.val).volume
                                    = Some(LastN(Unwrap(candles.volume), n))
                        ELSE Unwrap(r.val).volume = None

\* C8: an iterator made by iter() on a store of k bars yields on its first
\* k next() calls k Rows, the i-th the Row get(i) gives on the store as it
\* was at iter(), and its (k+1)-th next() returns absence.
C8_IteratorTotality ==
    IsSome(snap) =>
        LET k == Len(Unwrap(snap).time) IN
        \A i \in 1..Len(yielded) :
            /\ i <= k => /\ ~yielded[i].panic
                         /\ IsSome(yielded[i].val)
                         /\ yielded[i] = get(Unwrap(snap), i - 1)
            /\ i = k + 1 => yielded[i] = Ok(None)

\* C9: once a next() call has returned absence, every later next() call on
\* that iterator returns absence.
C9_ExhaustionPermanent ==
    \A i \in 1..Len(yielded) : \A j \in i..Len(yielded) :
        yielded[i] = Ok(None) => yielded[j] = Ok(None)

\* C10: whatever push calls on the store are interleaved with the next()
\* calls of an iterator, the iterator yields what it yields with no push
\* after iter(): its i-th call gives what get gives at the cursor of that
\* call on the store as it was at iter() (or the overflow panic of the
\* cursor at usize::MAX).
C10_SnapshotIsolation ==
    IsSome(snap) =>
        \A i \in 1..Len(yielded) :
            LET cursor == (i - 1) % (UsizeMax + 1) IN
            \/ yielded[i] = get(Unwrap(snap), cursor)
            \/ (yielded[i] = Panic /\ cursor = UsizeMax)

\* C10 witness: the store has grown since iter(), and the next() call that
\* just returned reported exhaustion at the snapshot's length.
C10_Witness_PushedDuringIteration ==
    /\ IsSome(snap)
    /\ Len(Unwrap(snap).time) >= 1
    /\ Len(candles.time) > Len(Unwrap(snap).time)
    /\ ret.op = "next"
    /\ Len(yielded) = Len(Unwrap(snap).time) + 1
    /\ yielded[Len(yielded)] = Ok(None)

\* C11: get(index), last() and take_last(n) called through a reference to a
\* store return what the same call on the owned store returns (the same
\* Row, the same store, absence, or the same panic), for every index and
\* n, and the six field accessors return the same columns.
C11_ReferenceTransparent ==
    /\ \A index \in 0..(MaxLen + 1) : ref_get(candles, index) = get(candles, index)
    /\ ref_last(candles) = last(candles)
    /\ \A n \in 0..(MaxLen + 1) : ref_take_last(candles, n) = take_last(candles, n)
    /\ \A f \in Fields : ref_accessor(candles, f) = accessor(candles, f)
    /\ (ret.op = "ref_get" => ret.res = get(candles, Unwrap(ret.arg)))
    /\ (ret.op = "ref_last" => ret.res = last(candles))
    /\ (ret.op = "ref_take_last" => ret.res = take_last(candles, Unwrap(ret.arg)))
    /\ (ret.op = "ref_accessor" => ret.res = Ok(Some(accessor(candles, Unwrap(ret.arg)))))

\* C11 witness: take_last(2) through a reference has returned the whole of
\* a store of two bars with a full volume column.
C11_Witness_RefTakeLastWhole ==
    /\ ret.op = "ref_take_last"
    /\ Unwrap(ret.arg) = 2
    /\ Len(candles.time) = 2
    /\ IsSome(candles.volume)
    /\ LengthInvariant(candles)
    /\ IsSome(ret.res.val)
    /\ Len(Unwrap(ret.res.val).time) = 2

\* C12: after a push that returns, last() returns the Row of exactly the
\* values pushed: the pushed open, high, low, close and time, the store's
\* identifier, and as volume the pushed volume when the store has a volume
\* column, absent when it has none.
C12_LastIsPushedBar ==
    (ret.op = "push" /\ ~panicked) =>
        last(candles) =
            Ok(Some(Candle(candles.id,
                           Unwrap(ret.arg).open,
                           Unwrap(ret.arg).high,
                           Unwrap(ret.arg).low,
                           Unwrap(ret.arg).close,
                           IF IsSome(candles.volume)
                           THEN Unwrap(ret.arg).volume
                           ELSE None,
                           Unwrap(ret.arg).time)))

\* Reachable: after a push that returned, last() returns a Row whose
\* volume is that of an earlier bar.
LastReturnsStaleVolume ==
    /\ ret.op = "push"
    /\ ~panicked
    /\ IsNone(Unwrap(ret.arg).volume)
    /\ ~last(candles).panic
    /\ IsSome(Unwrap(last(candles).val).volume)

\* C13: is_empty, get, last, take_last, the field accessors and iter leave
\* the identifier and the six columns of the store they are called on as
\* they were; next() changes only the cursor of its iterator, never the
\* iterator's snapshot or the original store.
ReadOnlyOps == {"is_empty", "get", "last", "take_last", "accessor", "iter", "next"}

C13_ReadsLeaveStore ==
    [][ /\ (ret'.op \in ReadOnlyOps => candles' = candles)
        /\ (ret'.op = "next" =>
                Unwrap(iterator').candles = Unwrap(iterator).candles)
      ]_vars

\* C13 witness: a second next() has just yielded a Row from a snapshot of
\* two bars, and the store has been read since it was filled.
C13_Witness_NextYieldedSecondRow ==
    /\ ret.op = "next"
    /\ IsSome(ret.res.val)
    /\ Len(yielded) = 2
    /\ Unwrap(iterator).idx = 2
    /\ Len(Unwrap(iterator).candles.time) = 2
    /\ candles = Unwrap(snap)

\* The store take_last returned and the Rows get, last and next returned
\* have a volume exactly when the store they came from has a volume column.
VolumeFollowsStore ==
    /\ (ret.op = "take_last" /\ IsSome(ret.res.val)
            => IsSome(Unwrap(ret.res.val).volume) = IsSome(candles.volume))
    /\ (ret.op \in {"get", "last"} /\ IsSome(ret.res.val)
            => IsSome(Unwrap(ret.res.val).volume) = IsSome(candles.volume))
    /\ (ret.op = "next" /\ IsSome(ret.res.val)
            => IsSome(Unwrap(ret.res.val).volume) = IsSome(Unwrap(snap).volume))

\* C14: no operation changes whether a store tracks volume: in every step
\* (push included, and going on with the store take_last returned) the
\* volume column is present after it iff it was present before, the store
\* take_last returns has a volume column iff its source has one, and every
\* Row of get, last and iteration has a volume iff its store has the column.
C14_VolumeTrackingFixed ==
    [][ /\ IsSome(candles'.volume) = IsSome(candles.volume)
        /\ VolumeFollowsStore'
      ]_vars

\* C14 witness: a store with a volume column took a push without volume,
\* and take_last(1) on it has returned a store.
C14_Witness_TrackedAfterPushNone ==
    /\ ret.op = "take_last"
    /\ Unwrap(ret.arg) = 1
    /\ IsSome(ret.res.val)
    /\ IsSome(candles.volume)
    /\ Len(candles.time) = 2
    /\ Len(Unwrap(candles.volume)) = 1

\* The sequences of results n calls of next() on it can give, one for each
\* way the build treats the overflow of the cursor; a panic ends the run.
RECURSIVE Runs(_, _)
Runs(it, n) ==
    IF n = 0
    THEN { <<>> }
    ELSE UNION { IF o.res.panic
                 THEN { <<o.res>> }
                 ELSE { <<o.res>> \o t : t \in Runs(o.it, n - 1) }
                 : o \in next(it) }

\* C15: the iterator into_iter makes of a store yields the same sequence
\* of Rows, followed by the same exhaustion, as the iterator iter() makes
\* of that store.
C15_IntoIterEqualsIter ==
    /\ Runs(into_iter(candles), MaxCalls) = Runs(iter(candles), MaxCalls)
    /\ (ret.op = "into_iter" =>
            Runs(Unwrap(iterator), MaxCalls) = Runs(iter(candles), MaxCalls))

\* C15 witness: into_iter has just made an iterator of a store of two bars
\* that keeps the equal-length rule.
C15_Witness_IntoIterOfTwoBars ==
    /\ ret.op = "into_iter"
    /\ Len(candles.time) = 2
    /\ LengthInvariant(candles)
    /\ Unwrap(iterator).idx = 0

\* C16: on a store of k bars that keeps the equal-length rule, for every
\* m <= n <= k, take_last(n) followed by take_last(m) on its result equals
\* take_last(m) on the store, and take_last(k) returns a store equal to
\* the original in identifier and in every column.
C16_TakeLastComposes ==
    (~panicked /\ LengthInvariant(candles)) =>
        LET k == Len(candles.time) IN
        /\ \A n \in 0..k : \A m \in 0..n :
              LET first == take_last(candles, n) IN
              /\ ~first.panic
              /\ IsSome(first.val)
              /\ take_last(Unwrap(first.val), m) = take_last(candles, m)
        /\ take_last(candles, k) = Ok(Some(candles))

\* C16 witness: take_last(1) has returned the last bar of a store of two
\* different bars with a full volume column.
C16_Witness_TakeLastOfTwo ==
    /\ ret.op = "take_last"
    /\ Unwrap(ret.arg) = 1
    /\ IsSome(ret.res.val)
    /\ LengthInvariant(candles)
    /\ candles.time = <<100, 200>>
    /\ candles.volume = Some(<<7, 9>>)
    /\ Unwrap(ret.res.val).time = <<200>>

----------------------------------------------------------------------------
\* Supporting checks: what the read operations do on the stores that keep
\* the equal-length rule, and what the cursor does past usize::MAX.

\* On a store that keeps the equal-length rule, get, last and take_last do
\* not panic.
ReadsTotalOnWellFormed ==
    (LengthInvariant(candles) /\ ret.op \in {"get", "last", "take_last"})
        => ~ret.res.panic

\* On a store that keeps the equal-length rule, last() is get(length - 1).
GetLastAgreeOnWellFormed == LengthInvariant(candles) => C5_GetLastAgree

\* On a store that keeps the equal-length rule, get reads the index-th row.
GetReadsRowOnWellFormed == LengthInvariant(candles) => C6_GetReadsRow

\* On a store that keeps the equal-length rule, take_last is the suffix.
TakeLastSuffixOnWellFormed == LengthInvariant(candles) => C7_TakeLastSuffix

\* A snapshot that keeps the equal-length rule is iterated in full.
IteratorTotalOnWellFormed ==
    (IsSome(snap) /\ LengthInvariant(Unwrap(snap))) => C8_IteratorTotality

\* Reachable without overflow checks: an iterator that reported absence
\* yields a Row again after its cursor wrapped to 0.
YieldsAfterExhaustion ==
    \E i \in 1..Len(yielded) : \E j \in i..Len(yielded) :
        yielded[i] = Ok(None) /\ IsSome(yielded[j].val)

====
